---- MODULE Spec2Model ----
(***************************************************************************)
(* Model of the presentation backend (src/BE): the deck renderer           *)
(* (services/ppt_service.py), the in-memory deck store (storage.py) and    *)
(* the request handlers that generate, edit, re-image and delete decks     *)
(* (api/generate.py, api/ppt_management.py, api/replace_image.py).         *)
(*                                                                         *)
(* Python values are modelled as follows.  A missing dict key or None is   *)
(* the empty tuple <<>> and a present integer n is <<n>>.  Text values are *)
(* tokens: "orig" is text produced at generation time, "new" is text       *)
(* supplied by an edit, "empty" is a falsy value ('' or []), and "bad" is  *)
(* a truthy JSON value of the wrong type (for instance the number 5 where  *)
(* a string or a list is expected).                                        *)
(***************************************************************************)
EXTENDS Integers, Sequences, FiniteSets, TLC

VARIABLES
    THEMES,     \* PPTService.THEMES, the class-level dict shared by all services
    svc,        \* SpecRender: the PPTService instance under construction / use
    rIn,        \* the arguments of the last call of the function studied on its own
    rOut,       \* what that call returned
    storage,    \* PPTStorage._storage: the ids that are keys of the dict
    decks,      \* the session dicts _storage maps to, by id (objects on the heap)
    slidesObj,  \* the 'slides' list object of each session dict
    imagesObj,  \* the 'image_urls' dict object of each session dict
    nextId,     \* the next fresh uuid
    now,        \* the clock datetime.utcnow() reads
    lock,       \* PPTStorage._lock: "free", or the worker thread that holds it
    procs,      \* the request each worker thread is handling, and where it is
    failed,     \* history: an edit or image replace has ended in an error
    served      \* history: the number of requests accepted so far

renderVars == <<svc, rIn, rOut>>

storeVars == <<storage, decks, slidesObj, imagesObj, nextId, now, lock, procs,
              failed, served>>

vars == <<THEMES, svc, rIn, rOut, storage, decks, slidesObj, imagesObj, nextId,
          now, lock, procs, failed, served>>

\* ------------------------------------------------------------------ bounds
\* Entries of an outline, and slides of a deck.
MaxSlides == 2

\* Decks ever created (uuids handed out).
MaxDecks == 1

\* Requests the server accepts in one behaviour.
MaxRequests == 3

\* ------------------------------------------------------------------ values
Absent == <<>>

Some(n) == <<n>>

\* ---------------------------------------------------------------- renderer
\* ppt_service.py 25-68: two of the seven themes, with the source's colours.
ThemeTable ==
    [modern |-> [bg_color |-> <<255, 255, 255>>, title_color |-> <<31, 78, 121>>,
                 text_color |-> <<64, 64, 64>>, accent_color |-> <<0, 120, 215>>],
     dark   |-> [bg_color |-> <<30, 30, 30>>, title_color |-> <<255, 255, 255>>,
                 text_color |-> <<220, 220, 220>>, accent_color |-> <<0, 120, 215>>]]

\* Theme names a request may carry; "neon" is not a key of THEMES.
RequestThemes == {"modern", "dark", "neon"}

\* Hex colours as tuples of six hex digits: "#1A73E8" and "#FF6B6B"
\* (tests/test_ppt_generation.py 20).
BrandA == <<1, 10, 7, 3, 14, 8>>

BrandB == <<15, 15, 6, 11, 6, 11>>

BrandLists == {<<>>, <<BrandA>>, <<BrandA, BrandB>>}

\* ppt_service.py 98-105
hex_to_rgb(h) == <<h[1] * 16 + h[2], h[3] * 16 + h[4], h[5] * 16 + h[6]>>

\* ppt_service.py 83: the key of THEMES whose dict the service aliases.
ThemeKey(theme) == IF theme \in DOMAIN ThemeTable THEN theme ELSE "modern"

\* ppt_service.py 91-96: writes through self.theme, which is THEMES[key] itself.
apply_brand_colors(th, brand) ==
    LET a == IF Len(brand) >= 1
             THEN [th EXCEPT !.accent_color = hex_to_rgb(brand[1])] ELSE th
    IN  IF Len(brand) >= 2
        THEN [a EXCEPT !.title_color = hex_to_rgb(brand[2])] ELSE a

\* ppt_service.py 70-89: the class-level table after PPTService(theme, brand).
ThemesAfterInit(themes, theme, brand) ==
    IF Len(brand) > 0
    THEN [themes EXCEPT ![ThemeKey(theme)] = apply_brand_colors(@, brand)]
    ELSE themes

\* Local files the renderer may be pointed at; anything else (a storage URL,
\* a path of a file that is not there) does not exist for os.path.exists.
LocalFiles == {"file", "badfile"}

\* "url" is a storage URL, as generate.py 199 and replace_image.py 122 would record;
\* "file" is a local image file, "badfile" a local file that is no image.
ImagePaths == {"url", "file", "badfile"}

\* ppt_service.py 271
path_exists(p) == p \in LocalFiles

\* ppt_service.py 283-292: add_picture raises on a file that is no image;
\* the exception is logged and the slide stays without a picture.
add_picture_ok(p) == p = "file"

\* ppt_service.py 466
slide_num_of(sd) ==
    IF sd.slide_number # Absent /\ sd.slide_number[1] # 0
    THEN sd.slide_number[1]
    ELSE (IF sd.index = Absent THEN 0 ELSE sd.index[1]) + 1

\* ppt_service.py 468
content_of(sd) == IF sd.content # "empty" THEN sd.content ELSE sd.bullets

\* ppt_service.py 470: image_paths.get(slide_num)
image_path_of(image_paths, n) ==
    IF n \in DOMAIN image_paths THEN image_paths[n] ELSE "empty"

\* ppt_service.py 154-213
create_title_slide(title) == [kind |-> "title", title |-> title]

\* ppt_service.py 215-342
create_content_slide(title, content, image_path, speaker_notes) ==
    [kind |-> "bullet", title |-> title, content |-> content,
     notes |-> speaker_notes,
     image |-> image_path # "empty" /\ path_exists(image_path)
               /\ add_picture_ok(image_path)]

\* ppt_service.py 344-408
create_chart_slide(title) == [kind |-> "chart", title |-> title]

\* ppt_service.py 410-438
create_thank_you_slide == [kind |-> "closing", title |-> "Thank You!"]

\* ppt_service.py 465-485: the slide one outline entry becomes.
RenderEntry(sd, image_paths) ==
    IF sd.chart_data # "empty"
    THEN create_chart_slide(sd.title)
    ELSE create_content_slide(sd.title, content_of(sd),
                              image_path_of(image_paths, slide_num_of(sd)),
                              sd.speaker_notes)

\* python-pptx raises on text of the wrong type: the title of any slide, and
\* the bullets and the notes of a bullet slide.
EntryRaises(sd) ==
    \/ sd.title = "bad"
    \/ sd.chart_data = "empty"
       /\ (content_of(sd) = "bad" \/ sd.speaker_notes = "bad")

\* ppt_service.py 462-485
ContentSlides(slides, image_paths) ==
    [i \in 1..Len(slides) |-> RenderEntry(slides[i], image_paths)]

\* ppt_service.py 440-497: the saved presentation, or the exception.
generate_from_data(colors, data, image_paths) ==
    IF \E i \in 1..Len(data.slides) : EntryRaises(data.slides[i])
    THEN [ok |-> FALSE]
    ELSE [ok |-> TRUE,
          colors |-> colors,
          slides |-> <<create_title_slide(data.title)>>
                     \o ContentSlides(data.slides, image_paths)
                     \o <<create_thank_you_slide>>]

\* ------------------------------------------------------------ deck store
\* Worker threads of the server: requests are handled concurrently.
Procs == {"w1", "w2"}

\* Subjects of bearer tokens; "none" is a request without a valid token.
Users == {"u1", "u2"}

NoBytes == [ok |-> FALSE]

\* SpecRender's record of a call: none yet.
NoCall == [called |-> FALSE]

Idle ==
    [pc |-> "idle", kind |-> "none", ppt_id |-> 0, idx |-> 0, body |-> <<>>,
     caller |-> "none", slides |-> 0,
     bytes |-> NoBytes, at |-> 0, num_slides |-> 0, newSlides |-> <<>>,
     newImages |-> <<>>, theme |-> "modern", status |-> 0, changed |-> FALSE]

\* storage.py 39-50: get hands out the stored dict itself (no copy), so this
\* is what a get of the deck shows at this moment, read in full.
View(id) ==
    IF id \in storage
    THEN [present |-> TRUE, rec |-> decks[id],
          slides |-> slidesObj[decks[id].slides],
          image_urls |-> imagesObj[decks[id].image_urls]]
    ELSE [present |-> FALSE]

\* The same in the next state, and whether the step changes it.
ViewNext(id) ==
    IF id \in storage'
    THEN [present |-> TRUE, rec |-> decks'[id],
          slides |-> slidesObj'[decks'[id].slides],
          image_urls |-> imagesObj'[decks'[id].image_urls]]
    ELSE [present |-> FALSE]

Changes(id) == ViewNext(id) # View(id)

\* storage.py 65: dict.update
Merge(rec, updates) ==
    [f \in DOMAIN rec \cup DOMAIN updates |->
        IF f \in DOMAIN updates THEN updates[f] ELSE rec[f]]

\* A faulty update that writes the fields into every stored session.
storage_update_all(ds, keys, ppt_id, updates, t) ==
    IF ppt_id \in keys
    THEN [id \in DOMAIN ds |->
            IF id \in keys
            THEN Merge(Merge(ds[id], updates), [updated_at |-> t])
            ELSE ds[id]]
    ELSE ds

\* storage.py 52-68: the session dicts after update(ppt_id, updates) at time t
storage_update(ds, keys, ppt_id, updates, t) ==
    IF ppt_id \in keys
    THEN [ds EXCEPT ![ppt_id] = Merge(Merge(@, updates), [updated_at |-> t])]
    ELSE ds

\* A faulty update that reports success for any id.
storage_update_result_true(keys, ppt_id) == TRUE

\* storage.py 64-68: what update(ppt_id, updates) returns
storage_update_result(keys, ppt_id) == ppt_id \in keys

\* storage.py 80-84: what delete(ppt_id) returns
storage_delete_result(keys, ppt_id) == ppt_id \in keys

\* storage.py 70-84: the keys after delete(ppt_id)
storage_delete(keys, ppt_id) == keys \ {ppt_id}

\* storage.py 19-37: the stored dict is a new dict holding data's values, the
\* id, and the clock as read at line 34 (t1) and again at line 35 (t2)
storage_create(data, ppt_id, t1, t2) ==
    Merge(data, [ppt_id |-> ppt_id, generated_at |-> t1, updated_at |-> t2])

\* A request is accepted: the model serves MaxRequests requests in all.
Accept ==
    /\ served < MaxRequests
    /\ served' = served + 1

\* A handler's last step: the response, and the history of failed edits.
Finish(p, h, status) ==
    /\ procs' = [procs EXCEPT ![p] =
                    [h EXCEPT !.pc = "done", !.status = status,
                              !.bytes = NoBytes, !.at = 0,
                              !.newSlides = <<>>, !.newImages = <<>>]]
    /\ failed' = (failed \/ (status >= 400 /\ h.kind \in {"patch", "replace"}))

\* A step of p that does not end its request.
Continue(p, h) ==
    /\ procs' = [procs EXCEPT ![p] = h]
    /\ UNCHANGED failed

\* ------------------------------------------------- re-render of a stored deck
\* ppt_management.py 218-229
presentation_data_of(topic, slides) ==
    [title |-> topic,
     slides |-> [i \in 1..Len(slides) |->
                   [slide_number |-> Some(slides[i].index + 1),
                    index |-> Absent,
                    title |-> slides[i].title,
                    content |-> slides[i].bullets,
                    bullets |-> "empty",
                    speaker_notes |-> slides[i].speaker_notes,
                    chart_data |-> "empty"]]]

\* The image map as the renderer sees it: every reference is a storage URL.
AsPaths(image_urls) == [n \in DOMAIN image_urls |-> "url"]

\* ppt_management.py 216-234:
\* PPTService(theme=...).generate_from_data(presentation_data, image_urls)
Rerender(rec, slides, image_urls) ==
    generate_from_data(THEMES[ThemeKey(rec.theme)],
                       presentation_data_of(rec.topic, slides),
                       AsPaths(image_urls))

\* ---------------------------------------------- PATCH /ppt/{id}/slide/{index}
\* ppt_management.py 208-213: the fields, in the order the handler assigns them
FieldOrder == <<"title", "bullets", "speaker_notes">>

\* The first field at or after position k that the request body supplies, 0 if none.
FirstField(body, k) ==
    IF \E j \in k..Len(FieldOrder) : FieldOrder[j] \in DOMAIN body
    THEN CHOOSE j \in k..Len(FieldOrder) :
            /\ FieldOrder[j] \in DOMAIN body
            /\ \A i \in k..(j - 1) : FieldOrder[i] \notin DOMAIN body
    ELSE 0

\* Request bodies: {}, {"title": "..."}, {"bullets": 5}, and all three fields.
PatchBodies ==
    {<<>>, [title |-> "new"], [bullets |-> "bad"],
     [title |-> "new", bullets |-> "new", speaker_notes |-> "new"]}

\* A faulty assignment that always writes to the first slide of the list.
assign_field_first(slides, idx, field, value) ==
    [slides EXCEPT ![1] = [@ EXCEPT ![field] = value]]

\* A faulty assignment that writes the value into every slide of the list.
assign_field_every(slides, idx, field, value) ==
    [i \in 1..Len(slides) |-> [slides[i] EXCEPT ![field] = value]]

\* ppt_management.py 209, 211, 213: slides[slide_index][field] = updates[field]
assign_field(slides, idx, field, value) ==
    [slides EXCEPT ![idx + 1] = [@ EXCEPT ![field] = value]]

\* ppt_management.py 168: the URL rule /ppt/<ppt_id>/slide/<int:slide_index>;
\* the int converter matches digits only, so a URL with a negative index
\* matches no rule and the 404 handler (app.py 92-99) answers.
int_converter(idx) == idx >= 0

\* ppt_management.py 168-205: the route, get, then the checks of the id, index
\* and body
PatchStart(p, ppt_id, idx, body, caller) ==
    /\ procs[p].pc = "idle"
    /\ Accept
    /\ LET h == [Idle EXCEPT !.kind = "patch", !.ppt_id = ppt_id, !.idx = idx,
                             !.body = body, !.caller = caller]
       IN  IF ~int_converter(idx) THEN Finish(p, h, 404)
           ELSE IF ppt_id \notin storage THEN Finish(p, h, 404)
           ELSE IF idx < 0 \/ idx >= Len(slidesObj[decks[ppt_id].slides])
                THEN Finish(p, h, 400)
           ELSE IF DOMAIN body = {} THEN Finish(p, h, 400)
           ELSE Continue(p, [h EXCEPT !.pc = "mutate",
                                      !.slides = decks[ppt_id].slides,
                                      !.at = FirstField(body, 1)])
    /\ UNCHANGED <<THEMES, renderVars, storage, decks, slidesObj, imagesObj,
                   nextId, now, lock>>

\* ppt_management.py 207-213: one assignment to the slide dict the store holds
PatchMutate(p) ==
    LET h == procs[p]
        f == FieldOrder[h.at]
        next == FirstField(h.body, h.at + 1)
    IN  /\ h.pc = "mutate"
        /\ slidesObj' = [slidesObj EXCEPT
                            ![h.slides] = assign_field(@, h.idx, f, h.body[f])]
        /\ UNCHANGED served
        /\ UNCHANGED <<THEMES, renderVars, storage, decks, imagesObj,
                       nextId, now, lock>>
        /\ Continue(p, [h EXCEPT !.pc = IF next = 0 THEN "render" ELSE "mutate",
                                 !.at = next,
                                 !.changed = @ \/ Changes(h.ppt_id)])

\* ppt_management.py 215-234: build presentation_data and render it
PatchRender(p) ==
    LET h == procs[p]
        rec == decks[h.ppt_id]
        out == Rerender(rec, slidesObj[h.slides], imagesObj[rec.image_urls])
    IN  /\ h.pc = "render"
        /\ h.kind = "patch"
        /\ IF out.ok THEN Continue(p, [h EXCEPT !.pc = "update", !.bytes = out])
                     ELSE Finish(p, h, 500)
        /\ UNCHANGED served
        /\ UNCHANGED <<THEMES, renderVars, storage, decks, slidesObj, imagesObj,
                       nextId, now, lock>>

\* ppt_management.py 236-240: storage.update(ppt_id, {slides, ppt_bytes})
PatchUpdate(p) ==
    LET h == procs[p]
    IN  /\ h.pc = "update"
        /\ h.kind = "patch"
        /\ decks' = storage_update(decks, storage, h.ppt_id,
                                   [slides |-> h.slides, ppt_bytes |-> h.bytes],
                                   now)
        /\ UNCHANGED served
        /\ UNCHANGED <<THEMES, renderVars, storage, slidesObj, imagesObj,
                       nextId, now, lock>>
        /\ Continue(p, [h EXCEPT !.pc = "reget", !.bytes = NoBytes,
                                 !.changed = @ \/ Changes(h.ppt_id)])

\* ppt_management.py 244-268: get again and answer;
\* a deck deleted meanwhile makes updated_data None and the handler raise.
Reget(p) ==
    LET h == procs[p]
    IN  /\ h.pc = "reget"
        /\ IF h.ppt_id \in storage THEN Finish(p, h, 200) ELSE Finish(p, h, 500)
        /\ UNCHANGED served
        /\ UNCHANGED <<THEMES, renderVars, storage, decks, slidesObj, imagesObj,
                       nextId, now, lock>>

\* The response is sent and the worker is free again.
Respond(p) ==
    /\ procs[p].pc = "done"
    /\ procs' = [procs EXCEPT ![p] = Idle]
    /\ UNCHANGED served
    /\ UNCHANGED <<THEMES, renderVars, storage, decks, slidesObj, imagesObj, nextId,
                   now, failed, lock>>

\* ------------------------------------------------------- DELETE /ppt/{id}
\* ppt_management.py 132-165
DeletePpt(p, ppt_id, caller) ==
    /\ procs[p].pc = "idle"
    /\ Accept
    /\ storage' = storage_delete(storage, ppt_id)
    /\ UNCHANGED <<THEMES, renderVars, decks, slidesObj, imagesObj, nextId, now, lock>>
    /\ Finish(p, [Idle EXCEPT !.kind = "delete", !.ppt_id = ppt_id,
                              !.caller = caller,
                              !.changed = Changes(ppt_id)],
              IF ppt_id \in storage THEN 200 ELSE 404)

\* ------------------------------------------------------ POST /replace-image
ImageIds == {"img1", "img2"}

\* The topic of every deck of the model.
Topic == "topic"

\* generate.py 189-190, replace_image.py 105-106, supabase_service.py 162:
\* the public URL of users/{user_id}/presentations/{safe_topic}/slide_{n}.jpg
Url(user, topic, n) == [user |-> user, topic |-> topic, slide |-> n]

\* replace_image.py 69-96: "found", "notfound", or "raise" when the slide has
\* an empty suggestion list and the search is attempted (line 84 indexes [0]).
\* search is what Pixabay does: "nokey" (no API key), "miss" or "hit".
ResolveImage(suggested, image_id, search) ==
    IF image_id \in suggested THEN "found"
    ELSE IF search = "nokey" THEN "notfound"
    ELSE IF suggested = {} THEN "raise"
    ELSE IF search = "hit" THEN "found" ELSE "notfound"

\* pixabay.py 85-127: the image is downloaded, then uploaded through
\* storage_service.upload_image_from_bytes (line 112).  SupabaseService
\* (supabase_service.py 27-620) defines upload_image and upload_image_from_path
\* but no upload_image_from_bytes, so the call raises AttributeError, which
\* line 125 catches: the function returns None for every image.
download_and_upload_image(url) == Absent

\* auth_supabase.py 61-94, replace_image.py 36-118: the token, get, the checks,
\* then the image is resolved and uploaded.  supabase_url is None, so the
\* handler answers 500 at lines 114-118; lines 120-183 (patching image_urls,
\* the re-render and the update) need a URL and are not reached.
ReplaceStart(p, ppt_id, idx, image_id, caller, search) ==
    /\ procs[p].pc = "idle"
    /\ Accept
    /\ LET h == [Idle EXCEPT !.kind = "replace", !.ppt_id = ppt_id, !.idx = idx,
                             !.caller = caller]
       IN  IF caller = "none" THEN Finish(p, h, 401)
           ELSE IF ppt_id \notin storage THEN Finish(p, h, 404)
           ELSE IF idx < 0 \/ idx >= Len(slidesObj[decks[ppt_id].slides])
                THEN Finish(p, h, 400)
           ELSE LET found == ResolveImage(
                                slidesObj[decks[ppt_id].slides][idx + 1].suggested_images,
                                image_id, search)
                    up == download_and_upload_image(
                              Url(caller, decks[ppt_id].topic, idx + 1))
                IN  IF found = "raise" THEN Finish(p, h, 500)
                    ELSE IF found = "notfound" THEN Finish(p, h, 404)
                    ELSE up = Absent /\ Finish(p, h, 500)
    /\ UNCHANGED <<THEMES, renderVars, storage, decks, slidesObj, imagesObj,
                   nextId, now, lock>>

\* ---------------------------------------------------------- POST /generate
\* groq.py 141-160
get_fallback_structure(topic, num_slides) ==
    [title |-> topic,
     slides |-> [i \in 1..num_slides |->
                   [slide_number |-> Some(i), index |-> Absent, title |-> "orig",
                    content |-> "orig", bullets |-> "empty",
                    speaker_notes |-> "orig", chart_data |-> "empty"]]]

\* groq.py 33-104: the model's parsed outline, or the fallback when the call
\* raised or its answer did not parse
generate_presentation_structure(llm, topic, num_slides) ==
    IF llm.ok THEN llm.data ELSE get_fallback_structure(topic, num_slides)

\* generate.py 178, 212: slide.get('slide_number', slide.get('index', 0) + 1)
gen_slide_num(sd) ==
    IF sd.slide_number # Absent THEN sd.slide_number[1]
    ELSE (IF sd.index = Absent THEN 0 ELSE sd.index[1]) + 1

\* generate.py 169-171
user_id_of(caller) == IF caller = "none" THEN "anonymous" ELSE caller

\* generate.py 173-199: image_urls after the loop; enrich[i] is what the image
\* search gave for entry i: "none" (no suggestions) or "found".
gen_image_urls(entries, enrich, user, topic) ==
    LET up(i) == download_and_upload_image(Url(user, topic, gen_slide_num(entries[i])))
    IN  [n \in {gen_slide_num(entries[i]) :
                  i \in {j \in 1..Len(entries) : enrich[j] = "found" /\ up(j) # Absent}}
            |-> Url(user, topic, n)]

\* generate.py 183, 224: the suggestions recorded last under slide number n
gen_suggested(entries, enrich, n) ==
    LET at == {i \in 1..Len(entries) : gen_slide_num(entries[i]) = n}
        last == CHOOSE i \in at : \A j \in at : j <= i
    IN  IF at # {} /\ enrich[last] # "none" THEN {"img1"} ELSE {}

\* generate.py 209-226
slides_response(entries, enrich) ==
    [i \in 1..Len(entries) |->
        [index |-> gen_slide_num(entries[i]) - 1,
         title |-> entries[i].title,
         content |-> entries[i].content,
         bullets |-> entries[i].content,
         speaker_notes |-> entries[i].speaker_notes,
         suggested_images |-> gen_suggested(entries, enrich, gen_slide_num(entries[i]))]]

\* generate.py 55-207: the request is read, the outline generated, the images
\* fetched, and the deck rendered; PPTService(theme, brand_colors) writes the
\* brand colours into THEMES.  Without GROQ_API_KEY the handler answers 500
\* (lines 137-144).  The sources gathered at lines 77-127 (content_sources
\* below) feed only the prompt of the model call, whose answer is g.llm.
GenStart(p, g) ==
    LET pd == generate_presentation_structure(g.llm, Topic, g.num_slides)
        user == user_id_of(g.caller)
        image_urls == gen_image_urls(pd.slides, g.enrich, user, Topic)
        themes == ThemesAfterInit(THEMES, g.theme, g.brand)
        out == generate_from_data(themes[ThemeKey(g.theme)], pd, AsPaths(image_urls))
        h == [Idle EXCEPT !.kind = "gen", !.caller = g.caller,
                          !.num_slides = g.num_slides, !.theme = g.theme]
    IN  /\ procs[p].pc = "idle"
        /\ Accept
        /\ nextId + Cardinality({q \in Procs : procs[q].pc = "create"}) <= MaxDecks
        /\ Len(g.enrich) = Len(pd.slides)
        /\ IF ~g.groq_key
           THEN THEMES' = THEMES /\ Finish(p, h, 500)
           ELSE /\ THEMES' = themes
                /\ IF out.ok
                   THEN Continue(p, [h EXCEPT !.pc = "create", !.bytes = out,
                                              !.newSlides = slides_response(pd.slides, g.enrich),
                                              !.newImages = image_urls])
                   ELSE Finish(p, h, 500)
        /\ UNCHANGED <<renderVars, storage, decks, slidesObj, imagesObj,
                       nextId, now, lock>>

\* generate.py 231-255, storage.py 19-37: storage.create(ppt_metadata)
GenCreate(p) ==
    LET h == procs[p]
        id == nextId
    IN  /\ h.pc = "create"
        /\ nextId' = nextId + 1
        /\ storage' = storage \cup {id}
        /\ slidesObj' = slidesObj @@ (id :> h.newSlides)
        /\ imagesObj' = imagesObj @@ (id :> h.newImages)
        /\ decks' = decks @@ (id :> storage_create(
                        [topic |-> Topic, theme |-> h.theme, slides |-> id,
                         ppt_bytes |-> h.bytes, image_urls |-> id,
                         user_id |-> user_id_of(h.caller)], id, now, now))
        /\ UNCHANGED served
        /\ UNCHANGED <<THEMES, renderVars, now, lock>>
        /\ Finish(p, [h EXCEPT !.ppt_id = id, !.changed = TRUE], 200)

\* ------------------------------------------------- the server, concurrently
\* Well-numbered outlines of exactly n bullet entries.
PlainOutline(n) == [get_fallback_structure("deck", n) EXCEPT !.title = "deck"]

\* Requests to /generate in the concurrent model: a signed-in user, the
\* default theme, an outline as asked for, image suggestions found for every
\* slide or for none.
GenRequests ==
    {[caller |-> "u1", theme |-> "modern", brand |-> <<>>, num_slides |-> n,
      groq_key |-> TRUE,
      llm |-> [ok |-> TRUE, data |-> PlainOutline(n)],
      enrich |-> [i \in 1..n |-> e]] : n \in 1..MaxSlides, e \in {"none", "found"}}

DeckIds == 1..MaxDecks

\* Slide indices a request may carry: one below the range, and up to one
\* above it.
Indices == -1..MaxSlides

Init ==
    /\ THEMES = ThemeTable
    /\ svc = [state |-> "none"]
    /\ rIn = NoCall
    /\ rOut = NoCall
    /\ storage = {}
    /\ decks = <<>>
    /\ slidesObj = <<>>
    /\ imagesObj = <<>>
    /\ nextId = 1
    /\ now = 0
    /\ lock = "free"
    /\ procs = [p \in Procs |-> Idle]
    /\ failed = FALSE
    /\ served = 0

\* A step of worker p: it takes a request, or goes on with the one it has.
Handle(p) ==
    \/ \E g \in GenRequests : GenStart(p, g)
    \/ GenCreate(p)
    \/ \E id \in DeckIds, idx \in Indices, body \in PatchBodies,
          caller \in Users \cup {"none"} : PatchStart(p, id, idx, body, caller)
    \/ PatchMutate(p)
    \/ PatchRender(p)
    \/ PatchUpdate(p)
    \/ \E id \in DeckIds, idx \in Indices, image_id \in ImageIds,
          caller \in Users \cup {"none"}, search \in {"nokey", "miss", "hit"} :
            ReplaceStart(p, id, idx, image_id, caller, search)
    \/ Reget(p)
    \/ \E id \in DeckIds, caller \in Users \cup {"none"} : DeletePpt(p, id, caller)
    \/ Respond(p)

Next == \E p \in Procs : Handle(p)

Spec == Init /\ [][Next]_vars

\* ------------------------------------------- the server, one request at a time
\* Requests arrive one after another: a single worker handles them all.
NextSeq == Handle("w1")

SpecSeq == Init /\ [][NextSeq]_vars

\* ------------------------------------------------ /generate, on its own
\* Outline entries the language model may return: numbered or not, with or
\* without chart data.
GenEntries ==
    [slide_number : {Absent} \cup {Some(n) : n \in 1..MaxSlides},
     index : {Absent},
     title : {"orig"},
     content : {"orig"},
     bullets : {"empty"},
     speaker_notes : {"orig"},
     chart_data : {"empty", "data"}]

\* What the model call gives: an exception or an unparsable answer, or a
\* parsed outline of any length up to MaxSlides.
LlmOutcomes ==
    {[ok |-> FALSE, data |-> <<>>]}
    \cup {[ok |-> TRUE, data |-> [title |-> "deck", slides |-> es]] :
             es \in UNION {[1..k -> GenEntries] : k \in 0..MaxSlides}}

\* Requests to /generate on a server with GROQ_API_KEY set, with every
\* outcome of the model call and of the image search of each entry.
KeyedGenRequests ==
    {g \in [caller : {"u1", "none"}, theme : {"modern", "neon"},
            brand : {<<>>, <<BrandA>>}, num_slides : 1..MaxSlides,
            groq_key : {TRUE},
            llm : LlmOutcomes,
            enrich : UNION {[1..k -> {"none", "found"}] : k \in 0..MaxSlides}] :
        Len(g.enrich) = Len(generate_presentation_structure(
                                g.llm, Topic, g.num_slides).slides)}

\* A request to a server without GROQ_API_KEY.
NoKeyRequest ==
    [caller |-> "u1", theme |-> "modern", brand |-> <<>>, num_slides |-> 1,
     groq_key |-> FALSE, llm |-> [ok |-> FALSE, data |-> <<>>],
     enrich |-> <<"none">>]

AllGenRequests == KeyedGenRequests \cup {NoKeyRequest}

NextGen ==
    \E p \in Procs :
        \/ \E g \in AllGenRequests : GenStart(p, g)
        \/ GenCreate(p)
        \/ Respond(p)

SpecGen == Init /\ [][NextGen]_vars

\* ------------------------------------------ outline generator, on its own
\* Tokens of the text the language model answers, response.choices[0]
\* .message.content (groq.py 82) after strip(): "fence" is a ``` marker,
\* "json" the word json, "prose" any other text, "payload" the text of a JSON
\* object holding an outline, "junk" text that is not valid JSON (a truncated
\* payload, say).
Tokens == {"fence", "json", "prose", "payload", "junk"}

\* Longest answer, in tokens.
MaxTokens == 4

\* str.split('```') (groq.py 87): the pieces between the markers.
RECURSIVE split_fence(_)
split_fence(content) ==
    IF \A i \in 1..Len(content) : content[i] # "fence"
    THEN <<content>>
    ELSE LET k == CHOOSE i \in 1..Len(content) :
                     /\ content[i] = "fence"
                     /\ \A j \in 1..(i - 1) : content[j] # "fence"
         IN  <<SubSeq(content, 1, k - 1)>>
             \o split_fence(SubSeq(content, k + 1, Len(content)))

\* groq.py 84-90: a leading code fence is removed, with a leading "json"
strip_fence(content) ==
    IF content # <<>> /\ content[1] = "fence"
    THEN LET piece == split_fence(content)[2]
         IN  IF piece # <<>> /\ piece[1] = "json" THEN Tail(piece) ELSE piece
    ELSE content

\* groq.py 92: json.loads succeeds on the text of one JSON value and nothing
\* else.
json_loads_ok(text) == text = <<"payload">>

\* groq.py 67-104: what the call and the parsing of its answer come to; resp
\* is the model call's outcome: raised, or the answer and the outline in it.
parse_response(resp) ==
    IF ~resp.raised /\ json_loads_ok(strip_fence(resp.content))
    THEN [ok |-> TRUE, data |-> resp.outline]
    ELSE [ok |-> FALSE, data |-> <<>>]

\* groq.py 149-157: the texts of slide i of the fallback outline, as the
\* f-strings build them.
fallback_text(i, topic) ==
    [title |-> [prefix |-> "Slide", number |-> i, topic |-> topic],
     content |-> [k \in 1..3 |-> [prefix |-> "Point", number |-> k, topic |-> topic]],
     image_keywords |-> topic,
     speaker_notes |-> [prefix |-> "Discuss slide", number |-> i, topic |-> topic]]

\* Answers of the model: at most one payload in them.
Responses ==
    {c \in UNION {[1..k -> Tokens] : k \in 0..MaxTokens} :
        Cardinality({i \in 1..Len(c) : c[i] = "payload"}) <= 1}

\* Outcomes of the model call.
ModelCalls ==
    {[raised |-> TRUE, content |-> <<>>, outline |-> PlainOutline(1)]}
    \cup {[raised |-> FALSE, content |-> c, outline |-> PlainOutline(n)] :
             c \in Responses, n \in 1..MaxSlides}

InitOutline == Init

\* groq.py 33-104: generate_presentation_structure(topic, num_slides), called
\* once in a behaviour (the function keeps no state between calls)
GenerateStructure(resp, topic, num_slides) ==
    LET llm == parse_response(resp)
    IN  /\ ~rIn.called
        /\ rIn' = [called |-> TRUE, resp |-> resp, topic |-> topic,
                   num_slides |-> num_slides]
        /\ rOut' = [fallback |-> ~llm.ok,
                    data |-> generate_presentation_structure(llm, topic, num_slides),
                    text |-> IF llm.ok THEN <<>>
                             ELSE [i \in 1..num_slides |-> fallback_text(i, topic)]]
        /\ UNCHANGED <<THEMES, svc, storeVars>>

NextOutline ==
    \E resp \in ModelCalls, topic \in {"topic", "deck"}, num_slides \in 0..MaxSlides :
        GenerateStructure(resp, topic, num_slides)

SpecOutline == InitOutline /\ [][NextOutline]_vars

\* ------------------------------------------- source gathering, on its own
\* URLs of one request.
MaxUrls == 3

\* What scraping one URL comes to: "ok" (scrape_single_url returns success),
\* "fail" (it returns success False: robots.txt forbids, the request or the
\* parsing failed), "raise" (it raises).
UrlOutcomes == {"ok", "fail", "raise"}

\* What the encyclopedia gives for the topic: "none" (no article found),
\* "nofetch" (no article could be fetched), "ok".
WikiOutcomes == {"none", "nofetch", "ok"}

\* A faulty scraper that gives up at the first URL that fails.
scrape_urls_stop(urls) ==
    [i \in 1..Len(urls) |->
        [success |-> \A j \in 1..i : urls[j] = "ok"]]

\* web_scraper.py 24-47: every URL is scraped; an exception is caught per URL
\* and recorded as a failure.
scrape_urls(urls) ==
    [i \in 1..Len(urls) |-> [success |-> urls[i] = "ok"]]

\* The URLs scraped successfully, in order.
RECURSIVE SuccessfulUrls(_, _)
SuccessfulUrls(results, i) ==
    IF i > Len(results) THEN <<>>
    ELSE (IF results[i].success THEN <<i>> ELSE <<>>)
         \o SuccessfulUrls(results, i + 1)

\* web_scraper.py 180-214: one block of text per successful result
get_combined_text(results) ==
    [kind |-> "scraped", urls |-> SuccessfulUrls(results, 1)]

\* wikipedia_service.py 124-167
get_content_for_query(wiki) ==
    IF wiki = "ok"
    THEN [success |-> TRUE, combined_text |-> [kind |-> "wiki", urls |-> <<>>]]
    ELSE [success |-> FALSE, combined_text |-> [kind |-> "none", urls |-> <<>>]]

\* generate.py 77-127: the sources, whether the encyclopedia was queried,
\* and the texts joined for the prompt
content_sources(urls, source_text, wiki) ==
    LET results == scrape_urls(urls)
        scraped == IF urls # <<>> /\ \E i \in 1..Len(results) : results[i].success
                   THEN <<[type |-> "web_scraping",
                           text |-> get_combined_text(results)]>>
                   ELSE <<>>
        given == IF source_text # ""
                 THEN <<[type |-> "user_provided",
                         text |-> [kind |-> "user", urls |-> <<>>]]>>
                 ELSE <<>>
        queried == scraped \o given = <<>>
        found == IF queried /\ get_content_for_query(wiki).success
                 THEN <<[type |-> "wikipedia",
                         text |-> get_content_for_query(wiki).combined_text]>>
                 ELSE <<>>
        sources == scraped \o given \o found
    IN  [sources |-> sources,
         queried |-> queried,
         combined |-> [i \in 1..Len(sources) |-> sources[i].text]]

InitSources == Init

\* generate.py 77-127, once in a behaviour (the step keeps no state)
GatherSources(urls, source_text, wiki) ==
    /\ ~rIn.called
    /\ rIn' = [called |-> TRUE, urls |-> urls, source_text |-> source_text,
               wiki |-> wiki]
    /\ rOut' = content_sources(urls, source_text, wiki)
    /\ UNCHANGED <<THEMES, svc, storeVars>>

NextSources ==
    \E urls \in UNION {[1..k -> UrlOutcomes] : k \in 0..MaxUrls},
       source_text \in {"", "text"}, wiki \in WikiOutcomes :
          GatherSources(urls, source_text, wiki)

SpecSources == InitSources /\ [][NextSources]_vars

\* ------------------------------------------------- the store, on its own
\* Sessions created in a behaviour.
MaxStored == 2

\* The last reading of the clock.
MaxTime == 3

\* Clock readings in an hour.
TicksPerHour == 2

StoreIds == 1..MaxStored

\* The dicts handed to create: what the tests hand it.
CreateData == {[topic |-> t, slides |-> "empty"] : t \in {"orig", "new"}}

\* The dicts handed to update: no field, fields the session has, a field it
\* does not have yet.
UpdateData ==
    {<<>>, [topic |-> "new"], [topic |-> "new", slides |-> "new"],
     [theme |-> "new"]}

\* No argument of that kind in the call.
NoData == <<>>

\* A faulty sweep that also removes the sessions aged exactly max_age_hours.
clear_old_sessions_ge(ds, keys, t, max_age_hours) ==
    {id \in keys : (t - ds[id].generated_at) >= max_age_hours * TicksPerHour}

\* storage.py 113-122: to_delete; age_hours = (now - generated_at) / 3600 s
clear_old_sessions(ds, keys, t, max_age_hours) ==
    {id \in keys : (t - ds[id].generated_at) > max_age_hours * TicksPerHour}

\* The call and its answer, in one shape for every method.
CallOf(op, ppt_id, data, h) ==
    [called |-> TRUE, op |-> op, ppt_id |-> ppt_id, data |-> data,
     max_age_hours |-> h, at |-> now]

AnswerOf(ok, ppt_id, data, count) ==
    [ok |-> ok, ppt_id |-> ppt_id, data |-> data, count |-> count]

InitStore == Init

\* storage.py 19-37; the clock may move on between the reads at 34 and 35
Create(data, t2) ==
    /\ nextId <= MaxStored
    /\ t2 \in {now, now + 1}
    /\ t2 <= MaxTime
    /\ now' = t2
    /\ nextId' = nextId + 1
    /\ storage' = storage \cup {nextId}
    /\ decks' = decks @@ (nextId :> storage_create(data, nextId, now, t2))
    /\ rIn' = CallOf("create", 0, data, 0)
    /\ rOut' = AnswerOf(TRUE, nextId, Absent, 0)
    /\ UNCHANGED <<THEMES, svc, slidesObj, imagesObj, procs, failed, served, lock>>

\* storage.py 39-50
Get(ppt_id) ==
    /\ rIn' = CallOf("get", ppt_id, NoData, 0)
    /\ rOut' = AnswerOf(ppt_id \in storage, ppt_id,
                        IF ppt_id \in storage THEN <<decks[ppt_id]>> ELSE Absent, 0)
    /\ UNCHANGED <<THEMES, svc, storeVars>>

\* storage.py 52-68
Update(ppt_id, updates) ==
    /\ decks' = storage_update(decks, storage, ppt_id, updates, now)
    /\ rIn' = CallOf("update", ppt_id, updates, 0)
    /\ rOut' = AnswerOf(storage_update_result(storage, ppt_id), ppt_id, Absent, 0)
    /\ UNCHANGED <<THEMES, svc, storage, slidesObj, imagesObj, nextId, now, procs,
                   failed, served, lock>>

\* storage.py 70-84
Delete(ppt_id) ==
    /\ storage' = storage_delete(storage, ppt_id)
    /\ rIn' = CallOf("delete", ppt_id, NoData, 0)
    /\ rOut' = AnswerOf(storage_delete_result(storage, ppt_id), ppt_id, Absent, 0)
    /\ UNCHANGED <<THEMES, svc, decks, slidesObj, imagesObj, nextId, now, procs,
                   failed, served, lock>>

\* storage.py 105-126
ClearOldSessions(max_age_hours) ==
    LET to_delete == clear_old_sessions(decks, storage, now, max_age_hours)
    IN  /\ storage' = storage \ to_delete
        /\ rIn' = CallOf("clear_old_sessions", 0, NoData, max_age_hours)
        /\ rOut' = AnswerOf(TRUE, 0, Absent, Cardinality(to_delete))
        /\ UNCHANGED <<THEMES, svc, decks, slidesObj, imagesObj, nextId, now, procs,
                       failed, served, lock>>

\* Time passes.
Tick ==
    /\ now < MaxTime
    /\ now' = now + 1
    /\ UNCHANGED <<THEMES, renderVars, storage, decks, slidesObj, imagesObj, nextId,
                   procs, failed, served, lock>>

NextStore ==
    \/ \E data \in CreateData, t2 \in 0..MaxTime : Create(data, t2)
    \/ \E ppt_id \in StoreIds : Get(ppt_id)
    \/ \E ppt_id \in StoreIds, updates \in UpdateData : Update(ppt_id, updates)
    \/ \E ppt_id \in StoreIds : Delete(ppt_id)
    \/ \E max_age_hours \in 0..1 : ClearOldSessions(max_age_hours)
    \/ Tick

SpecStore == InitStore /\ [][NextStore]_vars

\* ----------------------------------------------- error responses, on their own
\* The handlers that catch Exception themselves, and "app" for an exception
\* raised where no handler catches it (app.py 111-119).
Endpoints ==
    {"generate_ppt", "get_ppt", "download_ppt", "delete_ppt", "update_slide",
     "replace_image", "search_pixabay", "upload_source", "robots_check", "app"}

\* Texts of exceptions, str(e).
ExceptionTexts == {"e1", "e2", "e3", "e4"}

\* The 'error' entry each handler's except clause writes.
error_label(endpoint) ==
    CASE endpoint = "generate_ppt" -> "Failed to generate presentation"
      [] endpoint = "get_ppt" -> "Failed to retrieve presentation"
      [] endpoint = "download_ppt" -> "Failed to download presentation"
      [] endpoint = "delete_ppt" -> "Failed to delete presentation"
      [] endpoint = "update_slide" -> "Failed to update slide"
      [] endpoint = "replace_image" -> "Failed to replace image"
      [] endpoint = "search_pixabay" -> "Failed to search images"
      [] endpoint = "upload_source" -> "Failed to process uploaded file"
      [] endpoint = "robots_check" -> "Failed to check robots.txt"
      [] OTHER -> "Internal Server Error"

\* app.py 111-119
handle_exception(text) ==
    [error |-> "Internal Server Error",
     message |-> "An unexpected error occurred", code |-> 500]

\* generate.py 257-263, ppt_management.py 76-82, 123-129, 159-165, 262-268,
\* replace_image.py 177-183, pixabay_proxy.py 86-92, upload_and_robots.py
\* 93-99, 143-149: the body of the 500 answered for an exception with str(e) = text
error_body(endpoint, text) ==
    IF endpoint = "app" THEN handle_exception(text)
    ELSE [error |-> error_label(endpoint), message |-> text, code |-> 500]

InitErrors == Init

\* Two requests to one endpoint, each ended by an unexpected exception.
RaiseTwice(endpoint, text1, text2) ==
    /\ ~rIn.called
    /\ rIn' = [called |-> TRUE, endpoint |-> endpoint, texts |-> <<text1, text2>>]
    /\ rOut' = [bodies |-> <<error_body(endpoint, text1), error_body(endpoint, text2)>>]
    /\ UNCHANGED <<THEMES, svc, storeVars>>

NextErrors ==
    \E endpoint \in Endpoints, text1 \in ExceptionTexts, text2 \in ExceptionTexts :
        RaiseTwice(endpoint, text1, text2)

SpecErrors == InitErrors /\ [][NextErrors]_vars

\* ------------------------------------------------ robots check, on its own
\* Paths of the site of the URL checked.
Paths == {"/", "/page", "/private"}

\* What fetching robots.txt comes to in RobotFileParser.read(): "raise" (no
\* connection, a timeout, bytes that are not UTF-8: the exception leaves
\* read), an HTTP error status (read catches HTTPError itself), or "ok" (the
\* file was fetched and parsed).
ReadOutcomes == {"raise", "http401", "http403", "http404", "http500", "ok"}

\* robots.py 45-49: the parser after rp.read(), or the exception.  read sets
\* disallow_all for 401 and 403, allow_all for any other 4xx, neither for a
\* 5xx, and parses the rules (which sets last_checked) otherwise.
rp_read(fetch, rules) ==
    [raised |-> fetch = "raise",
     disallow_all |-> fetch \in {"http401", "http403"},
     allow_all |-> fetch = "http404",
     last_checked |-> fetch = "ok",
     disallowed |-> IF fetch = "ok" THEN rules ELSE {}]

\* robots.py 56: rp.can_fetch(user_agent, url)
can_fetch(rp, path) ==
    IF rp.disallow_all THEN FALSE
    ELSE IF rp.allow_all THEN TRUE
    ELSE IF ~rp.last_checked THEN FALSE
    ELSE path \notin rp.disallowed

\* robots.py 29-66: is_allowed.  bad_url: get_robots_url raises on the URL;
\* fetch_raises: can_fetch raises.
check_robots_txt(bad_url, fetch, rules, path, fetch_raises) ==
    LET rp == rp_read(fetch, rules)
    IN  IF bad_url THEN FALSE
        ELSE IF rp.raised THEN FALSE
        ELSE IF fetch_raises THEN FALSE
        ELSE can_fetch(rp, path)

InitRobots == Init

\* robots.py 29-66, once in a behaviour
CheckRobots(bad_url, fetch, rules, path, fetch_raises) ==
    /\ ~rIn.called
    /\ rIn' = [called |-> TRUE, bad_url |-> bad_url, fetch |-> fetch,
               rules |-> rules, path |-> path, fetch_raises |-> fetch_raises]
    /\ rOut' = [allowed |-> check_robots_txt(bad_url, fetch, rules, path,
                                             fetch_raises)]
    /\ UNCHANGED <<THEMES, svc, storeVars>>

NextRobots ==
    \E bad_url \in BOOLEAN, fetch \in ReadOutcomes, rules \in SUBSET Paths,
       path \in Paths, fetch_raises \in BOOLEAN :
          CheckRobots(bad_url, fetch, rules, path, fetch_raises)

SpecRobots == InitRobots /\ [][NextRobots]_vars

\* --------------------------------------------- storage paths, on their own
\* Characters of a topic: a letter, a digit, the two marks the pattern keeps,
\* a space, a mark and a letter outside ASCII.
Chars == {"A", "7", "_", "-", " ", "&", "e-acute"}

\* The characters the pattern [^a-zA-Z0-9_-] does not match.
Kept == {"A", "7", "_", "-"}

\* Longest topic, in characters.
MaxTopicLen == 3

TopicStrings == UNION {[1..k -> Chars] : k \in 0..MaxTopicLen}

\* generate.py 189, replace_image.py 105: topic.replace(' ', '_')
replace_space(topic) ==
    [i \in 1..Len(topic) |-> IF topic[i] = " " THEN "_" ELSE topic[i]]

\* A faulty substitution that drops the characters the pattern matches.
RECURSIVE re_sub_drop(_)
re_sub_drop(text) ==
    IF text = <<>> THEN <<>>
    ELSE (IF Head(text) \in Kept THEN <<Head(text)>> ELSE <<>>)
         \o re_sub_drop(Tail(text))

\* generate.py 189, replace_image.py 105: re.sub(r'[^a-zA-Z0-9_-]', '_', text)
re_sub(text) ==
    [i \in 1..Len(text) |-> IF text[i] \in Kept THEN text[i] ELSE "_"]

\* generate.py 189, replace_image.py 105
safe_topic(topic) == re_sub(replace_space(topic))

\* generate.py 190, replace_image.py 106:
\* f"users/{user_id}/presentations/{safe_topic}/slide_{slide_num}.jpg"
storage_path(user_id, topic, slide_num) ==
    [users |-> user_id, presentations |-> safe_topic(topic), slide |-> slide_num]

InitPaths == Init

\* generate.py 189, replace_image.py 105, once in a behaviour
Sanitize(topic) ==
    /\ ~rIn.called
    /\ rIn' = [called |-> TRUE, topic |-> topic]
    /\ rOut' = [safe_topic |-> safe_topic(topic)]
    /\ UNCHANGED <<THEMES, svc, storeVars>>

NextSanitize == \E topic \in TopicStrings : Sanitize(topic)

SpecSanitize == InitPaths /\ [][NextSanitize]_vars

\* Topics of decks whose images are stored: "A 7", "A_7", "A&7", "A7".
PathTopics ==
    {<<"A", " ", "7">>, <<"A", "_", "7">>, <<"A", "&", "7">>, <<"A", "7">>}

\* The decks an image is stored for: the id the store gave the deck, the
\* user that generated it, its topic.
PathDecks == [ppt_id : 1..2, user_id : Users \cup {"anonymous"}, topic : PathTopics]

\* generate.py 186-199, replace_image.py 98-112: the destinations the handlers
\* hand to download_and_upload_image for a slide of each of two decks
StorePaths(deck1, slide1, deck2, slide2) ==
    /\ ~rIn.called
    /\ rIn' = [called |-> TRUE, decks |-> <<deck1, deck2>>,
               slides |-> <<slide1, slide2>>]
    /\ rOut' = [paths |-> <<storage_path(deck1.user_id, deck1.topic, slide1),
                            storage_path(deck2.user_id, deck2.topic, slide2)>>]
    /\ UNCHANGED <<THEMES, svc, storeVars>>

NextPaths ==
    \E deck1 \in PathDecks, deck2 \in PathDecks,
       slide1 \in 1..MaxSlides, slide2 \in 1..MaxSlides :
          StorePaths(deck1, slide1, deck2, slide2)

SpecPaths == InitPaths /\ [][NextPaths]_vars

\* ---------------------------------------------- the store's lock, on its own
\* The methods a handler calls on the store.
StoreMethods == {"create", "get", "update", "delete"}

InitLock == Init

\* Worker q has called create and not yet left it.
Creating(q) == procs[q].pc \in {"waiting", "inside"} /\ procs[q].kind = "create"

\* storage.py 29, 49, 63, 80: the thread reaches "with self._lock:" of a method
Call(p, method, ppt_id) ==
    /\ procs[p].pc = "idle"
    /\ IF method = "create"
       THEN /\ ppt_id = 0
            /\ nextId + Cardinality({q \in Procs : Creating(q)}) <= MaxStored
       ELSE ppt_id \in StoreIds
    /\ procs' = [procs EXCEPT ![p] = [Idle EXCEPT !.pc = "waiting",
                                                  !.kind = method,
                                                  !.ppt_id = ppt_id]]
    /\ UNCHANGED <<THEMES, renderVars, storage, decks, slidesObj, imagesObj,
                   nextId, now, lock, failed, served>>

\* storage.py 29, 49, 63, 80: Lock.__enter__, which blocks while the lock is held
Enter(p) ==
    /\ procs[p].pc = "waiting"
    /\ lock = "free"
    /\ lock' = p
    /\ procs' = [procs EXCEPT ![p].pc = "inside"]
    /\ UNCHANGED <<THEMES, renderVars, storage, decks, slidesObj, imagesObj,
                   nextId, now, failed, served>>

\* storage.py 30-37, 50, 64-68, 81-84: the body of the method, then
\* Lock.__exit__
Leave(p) ==
    LET h == procs[p]
    IN  /\ h.pc = "inside"
        /\ lock' = "free"
        /\ storage' = IF h.kind = "delete" THEN storage_delete(storage, h.ppt_id)
                      ELSE IF h.kind = "create" THEN storage \cup {nextId}
                      ELSE storage
        /\ decks' = IF h.kind = "update"
                    THEN storage_update(decks, storage, h.ppt_id,
                                        [topic |-> "new"], now)
                    ELSE IF h.kind = "create"
                    THEN decks @@ (nextId :> storage_create(
                             [topic |-> "orig", slides |-> "empty"],
                             nextId, now, now))
                    ELSE decks
        /\ nextId' = IF h.kind = "create" THEN nextId + 1 ELSE nextId
        /\ procs' = [procs EXCEPT ![p] = Idle]
        /\ UNCHANGED <<THEMES, renderVars, slidesObj, imagesObj, now, failed, served>>

NextLock ==
    \E p \in Procs :
        \/ \E method \in StoreMethods, ppt_id \in {0} \cup StoreIds :
              Call(p, method, ppt_id)
        \/ Enter(p)
        \/ Leave(p)

SpecLock == InitLock /\ [][NextLock]_vars

\* -------------------------------------------------- renderer, on its own
\* Outline entries handed to the renderer.
RenderEntries ==
    [slide_number : {Absent} \cup {Some(n) : n \in 1..MaxSlides},
     index : {Absent},
     title : {"orig"},
     content : {"orig"},
     bullets : {"empty"},
     speaker_notes : {"orig"},
     chart_data : {"empty", "data"}]

SeqsUpTo(S, n) == UNION {[1..k -> S] : k \in 0..n}

RenderOutlines == [title : {"deck"}, slides : SeqsUpTo(RenderEntries, MaxSlides)]

\* Image maps: any set of slide numbers, all mapped to one kind of path.
ImageMaps == UNION {[K -> {p}] : K \in SUBSET (1..MaxSlides), p \in ImagePaths}

InitRender ==
    /\ THEMES = ThemeTable
    /\ svc = [state |-> "none"]
    /\ rIn = NoCall
    /\ rOut = NoCall
    /\ storage = {}
    /\ decks = <<>>
    /\ slidesObj = <<>>
    /\ imagesObj = <<>>
    /\ nextId = 1
    /\ now = 0
    /\ lock = "free"
    /\ procs = [p \in Procs |-> Idle]
    /\ failed = FALSE
    /\ served = 0

\* ppt_service.py 70-89: PPTService(theme, brand_colors)
NewService(theme, brand) ==
    /\ THEMES' = ThemesAfterInit(THEMES, theme, brand)
    /\ svc' = [state |-> "ready", key |-> ThemeKey(theme), theme |-> theme,
               brand |-> brand]
    /\ rIn' = NoCall
    /\ rOut' = NoCall
    /\ UNCHANGED storeVars

\* ppt_service.py 440-497, called once on a fresh service as every caller does
GenerateFromData(data, image_paths) ==
    /\ svc.state = "ready"
    /\ svc' = [svc EXCEPT !.state = "used"]
    /\ rIn' = [called |-> TRUE, data |-> data, image_paths |-> image_paths]
    /\ rOut' = generate_from_data(THEMES[svc.key], data, image_paths)
    /\ UNCHANGED <<THEMES, storeVars>>

NextRender ==
    \/ \E theme \in RequestThemes, brand \in BrandLists : NewService(theme, brand)
    \/ \E data \in RenderOutlines, image_paths \in ImageMaps :
          GenerateFromData(data, image_paths)

SpecRender == InitRender /\ [][NextRender]_vars

\* The outline entries of the last call and the content slides it produced.
LastEntries == rIn.data.slides

LastContent == SubSeq(rOut.slides, 2, Len(rOut.slides) - 1)

Rendered == rIn.called /\ rOut.ok

\* Orderings of 1..n in which the entries' slide numbers never decrease.
NumberOrders(entries) ==
    {ord \in [1..Len(entries) -> 1..Len(entries)] :
        /\ \A i, j \in 1..Len(entries) : i # j => ord[i] # ord[j]
        /\ \A i, j \in 1..Len(entries) :
              i < j => slide_num_of(entries[ord[i]]) <= slide_num_of(entries[ord[j]])}

\* C8: rendering an outline of N entries gives N + 2 slides: the title slide,
\* then one slide per entry in slide-number order (a chart slide exactly for
\* the entries with chart data, a bullet slide otherwise), then the closing
\* slide.
C8_SlideNumberOrder ==
    Rendered =>
        /\ Len(rOut.slides) = Len(LastEntries) + 2
        /\ rOut.slides[1].kind = "title"
        /\ rOut.slides[Len(rOut.slides)].kind = "closing"
        /\ \E ord \in NumberOrders(LastEntries) :
              \A i \in 1..Len(LastEntries) :
                 /\ LastContent[i] = RenderEntry(LastEntries[ord[i]], rIn.image_paths)
                 /\ LastContent[i].kind = "chart"
                       <=> LastEntries[ord[i]].chart_data = "data"

\* C9: a rendered bullet slide has a side image exactly when the image map
\* handed to the renderer has an entry for that slide's number.
C9_ImageIffEntry ==
    Rendered =>
        \A i \in 1..Len(LastEntries) :
            LastContent[i].kind = "bullet" =>
                (LastContent[i].image
                    <=> slide_num_of(LastEntries[i]) \in DOMAIN rIn.image_paths)

\* What the same call returns in a process that has rendered nothing before.
FreshRender ==
    generate_from_data(apply_brand_colors(ThemeTable[svc.key], svc.brand),
                       rIn.data, rIn.image_paths)

\* C10: a render's result (slide count, titles, bullet text, resolved
\* colours) depends only on its outline, image map, theme and brand colours,
\* not on the renders performed earlier in the process.
C10_HistoryIndependent == rIn.called => rOut = FreshRender

\* ------------------------------------------------------ the deck store's claims
\* Worker p is between the get and the last step of a request.
InFlight(p) == procs[p].pc \notin {"idle", "done"}

\* The content slides of the stored binary of deck d.
BinaryContent(d) ==
    SubSeq(decks[d].ppt_bytes.slides, 2, Len(decks[d].ppt_bytes.slides) - 1)

\* The content slides a render of the stored slides and image references gives.
RenderOfStored(d) ==
    ContentSlides(
        presentation_data_of(decks[d].topic, slidesObj[decks[d].slides]).slides,
        AsPaths(imagesObj[decks[d].image_urls]))

\* What a get of d shows is a complete deck: the binary is the render of the
\* slides and image references shown with it.
Complete(d) == BinaryContent(d) = RenderOfStored(d)

\* C1: while a slide edit or an image replace of a deck is in progress, a get
\* of that deck sees a complete deck (the one before or the one after the
\* edit), never edited slides or image references next to the binary rendered
\* before the edit.
C1_NoIntermediateView ==
    \A d \in storage :
        (\E p \in Procs : /\ InFlight(p)
                          /\ procs[p].kind \in {"patch", "replace"}
                          /\ procs[p].ppt_id = d)
            => Complete(d)

\* Worker p has answered 200 to a slide edit of deck d.
PatchDone(p, d) ==
    /\ procs[p].pc = "done"
    /\ procs[p].kind = "patch"
    /\ procs[p].status = 200
    /\ procs[p].ppt_id = d

\* The stored slides of d carry the fields worker p's edit supplied.
EditLanded(p, d) ==
    \A f \in DOMAIN procs[p].body :
        slidesObj[decks[d].slides][procs[p].idx + 1][f] = procs[p].body[f]

\* Apart from the generate requests that created the decks, two requests
\* have been accepted so far.
TwoRequestsOnly == served = (nextId - 1) + 2

\* C2: when two slide edits of one deck at different indices have both
\* completed (and no other edit, image replace or delete was requested), the
\* stored slides contain both edits, however their steps interleaved.
C2_BothEditsLand ==
    \A d \in storage : \A p, q \in Procs :
        (/\ p # q
         /\ PatchDone(p, d)
         /\ PatchDone(q, d)
         /\ procs[p].idx # procs[q].idx
         /\ TwoRequestsOnly)
            => EditLanded(p, d) /\ EditLanded(q, d)

\* Two edits at different indices have completed after interleaving: the
\* update that came last stored a binary rendered before the other's edit.
C2_InterleavedEditsDone ==
    \E d \in storage : \E p, q \in Procs :
        /\ p # q
        /\ PatchDone(p, d)
        /\ PatchDone(q, d)
        /\ procs[p].idx # procs[q].idx
        /\ TwoRequestsOnly
        /\ ~Complete(d)

\* C3: whenever no request is in flight, and every edit and image replace so
\* far completed successfully, the stored binary of each deck is the render of
\* its stored slides, image references and theme.
C3_BinaryIsRenderOfStored ==
    ((\A p \in Procs : ~InFlight(p)) /\ ~failed)
        => \A d \in storage :
              /\ Complete(d)
              /\ decks[d].ppt_bytes.colors = THEMES[ThemeKey(decks[d].theme)]

\* C4: a slide edit or an image replace that ends in an error leaves the
\* deck's stored slides, image references and binary as they were.
C4_FailedEditLeavesDeck ==
    \A p \in Procs :
        (/\ procs[p].pc = "done"
         /\ procs[p].kind \in {"patch", "replace"}
         /\ procs[p].status >= 400)
            => ~procs[p].changed

\* The step is one worker's store operation: update, create or delete.
StoreOperation ==
    \E p \in Procs :
        \/ procs[p].pc = "update" /\ procs'[p].pc = "reget"
        \/ procs[p].pc = "create" /\ procs'[p].pc = "done"
        \/ procs[p].pc = "idle" /\ procs'[p].pc = "done" /\ procs'[p].kind = "delete"

\* C5: what a get of a deck returns changes only in a step that is a store
\* operation (create, update, delete); a handler's assignments to the value
\* it read do not alter it.
C5_ChangesOnlyInStore ==
    [][\A d \in DeckIds : Changes(d) => StoreOperation]_vars

\* C6: a slide edit, a delete or an image replace by a caller who is not the
\* deck's owner never changes or removes the deck.
C6_OnlyOwnerChanges ==
    \A p \in Procs :
        (/\ procs[p].pc = "done"
         /\ procs[p].kind \in {"patch", "delete", "replace"}
         /\ procs[p].caller \in Users
         /\ procs[p].ppt_id \in DOMAIN decks
         /\ procs[p].caller # decks[procs[p].ppt_id].user_id)
            => ~procs[p].changed

\* C7: a /generate request that succeeds with num_slides = N has rendered a
\* deck of exactly N + 2 slides, whether the outline is the model's or the
\* fallback.
C7_RequestedSlideCount ==
    \A p \in Procs :
        (procs[p].pc = "done" /\ procs[p].kind = "gen" /\ procs[p].status = 200)
            => Len(decks[procs[p].ppt_id].ppt_bytes.slides) = procs[p].num_slides + 2

\* ------------------------------------------------ the outline generator's claims
\* The model's answer holds a valid structured payload.
PayloadPresent == \E i \in 1..Len(rIn.resp.content) : rIn.resp.content[i] = "payload"

\* C11: when the model call raises or its answer cannot be parsed, the outline
\* generator returns a fallback outline of exactly num_slides slides numbered
\* 1..num_slides, each titled "Section i: {topic}" with three generic bullets.
C11_FallbackOutline ==
    (rIn.called /\ (rIn.resp.raised \/ ~PayloadPresent))
        => /\ rOut.fallback
           /\ Len(rOut.data.slides) = rIn.num_slides
           /\ \A i \in 1..Len(rOut.data.slides) :
                 /\ rOut.data.slides[i].slide_number = Some(i)
                 /\ rOut.text[i].title
                       = [prefix |-> "Section", number |-> i, topic |-> rIn.topic]
                 /\ Len(rOut.text[i].content) = 3

\* C13: the outline generator returns the model's outline whenever the answer
\* holds a valid payload (bare, inside code-fence markers, or with prose
\* before or after it); the fallback is used only when there is none.
C13_PayloadIsUsed ==
    (rIn.called /\ ~rIn.resp.raised /\ PayloadPresent)
        => ~rOut.fallback /\ rOut.data = rIn.resp.outline

\* --------------------------------------------------------- /generate's claims
\* The stored slides of deck d.
StoredSlides(d) == slidesObj[decks[d].slides]

\* C12: in every stored deck the slide at array position i has index i (slide
\* number i + 1), whatever slide_number values the model returned.
C12_IndexIsPosition ==
    \A d \in storage :
        \A i \in 1..Len(StoredSlides(d)) : StoredSlides(d)[i].index = i - 1

\* C14: every /generate request with a topic gets a success response with a
\* non-empty list of slides, and never a 500, even when the model yields
\* nothing.
C14_NonEmptySuccess ==
    \A p \in Procs :
        (procs[p].pc = "done" /\ procs[p].kind = "gen")
            => /\ procs[p].status = 200
               /\ Len(StoredSlides(procs[p].ppt_id)) > 0

\* C16: after a successful /generate, a slide whose image search found nothing
\* has no image reference, and every slide whose image search found images
\* (the storage service being up) has its image reference.
C16_ImagePerSlide ==
    \A p \in Procs :
        (procs[p].pc = "done" /\ procs[p].kind = "gen" /\ procs[p].status = 200)
            => \A i \in 1..Len(StoredSlides(procs[p].ppt_id)) :
                  LET sl == StoredSlides(procs[p].ppt_id)[i]
                  IN  (sl.suggested_images # {})
                         <=> (sl.index + 1)
                               \in DOMAIN imagesObj[decks[procs[p].ppt_id].image_urls]

\* The types of the sources gathered by the last call.
SourceTypes == [i \in 1..Len(rOut.sources) |-> rOut.sources[i].type]

\* The URLs of the last call that were scraped successfully, as a set.
OkUrls == {i \in 1..Len(rIn.urls) : rIn.urls[i] = "ok"}

\* The sources the rule of C15 prescribes for the last call, in order.
ExpectedTypes ==
    (IF OkUrls # {} THEN <<"web_scraping">> ELSE <<>>)
    \o (IF rIn.source_text # "" THEN <<"user_provided">> ELSE <<>>)
    \o (IF OkUrls = {} /\ rIn.source_text = "" /\ rIn.wiki = "ok"
        THEN <<"wikipedia">> ELSE <<>>)

CallStep(op) ==
    /\ rIn'.called
    /\ rIn'.op = op
    /\ <<rIn, rOut>>' # <<rIn, rOut>>

\* The session was created and is no longer stored.
Deleted(ppt_id) == ppt_id \in DOMAIN decks /\ ppt_id \notin storage

\* C17: once a session has been deleted, it stays deleted, and every later
\* get, update or delete of its id reports not-found.
C17_DeletedStaysDeleted ==
    [][\A ppt_id \in StoreIds :
          Deleted(ppt_id) =>
              /\ Deleted(ppt_id)'
              /\ (rIn'.ppt_id = ppt_id
                  /\ (CallStep("get") \/ CallStep("update") \/ CallStep("delete")))
                    => (~rOut'.ok /\ rOut'.data = Absent)]_vars

\* A session is created, deleted in the same tick (so delete removed it, not
\* the sweep), and an update of it then reports not-found.
C17_UpdateAfterDelete ==
    /\ rIn.called
    /\ rIn.op = "update"
    /\ Deleted(rIn.ppt_id)
    /\ rIn.at = decks[rIn.ppt_id].generated_at
    /\ ~rOut.ok

\* C18: update of a stored id sets exactly the supplied fields, sets
\* updated_at to the clock, leaves the other fields and the other sessions as
\* they were and reports success; update of an unknown id reports not-found
\* and changes nothing.
C18_UpdateSetsSupplied ==
    [][CallStep("update") =>
         LET ppt_id == rIn'.ppt_id
             updates == rIn'.data
         IN  /\ storage' = storage
             /\ DOMAIN decks' = DOMAIN decks
             /\ \A other \in DOMAIN decks \ {ppt_id} : decks'[other] = decks[other]
             /\ IF ppt_id \in storage
                THEN /\ rOut'.ok
                     /\ DOMAIN decks'[ppt_id] = DOMAIN decks[ppt_id] \cup DOMAIN updates
                     /\ \A f \in DOMAIN updates : decks'[ppt_id][f] = updates[f]
                     /\ decks'[ppt_id].updated_at = now
                     /\ \A f \in DOMAIN decks[ppt_id] \ (DOMAIN updates \cup {"updated_at"}) :
                           decks'[ppt_id][f] = decks[ppt_id][f]
                ELSE /\ ~rOut'.ok
                     /\ decks' = decks]_vars

\* With two sessions stored, an update of one at a later time than its
\* creation has set the supplied field and the time.
C18_UpdatedOneOfTwo ==
    /\ rIn.called
    /\ rIn.op = "update"
    /\ rOut.ok
    /\ storage = StoreIds
    /\ rIn.data = [topic |-> "new"]
    /\ decks[rIn.ppt_id].topic = "new"
    /\ decks[rIn.ppt_id].updated_at > decks[rIn.ppt_id].generated_at
    /\ \E other \in storage : decks[other].topic = "orig"

\* C19: a get of the id create has just returned gives the record with that
\* id, every field of data, and a creation time equal to the update time.
C19_GetAfterCreate ==
    [][(rIn.called /\ rIn.op = "create" /\ CallStep("get")
        /\ rIn'.ppt_id = rOut.ppt_id) =>
         /\ rOut'.ok
         /\ Len(rOut'.data) = 1
         /\ rOut'.data[1].ppt_id = rOut.ppt_id
         /\ \A f \in DOMAIN rIn.data : rOut'.data[1][f] = rIn.data[f]
         /\ rOut'.data[1].generated_at = rOut'.data[1].updated_at]_vars

\* C20: clear_old_sessions(h) removes exactly the stored sessions created
\* more than h hours ago, leaves the dicts of the others as they were, and
\* returns the number removed.
C20_ClearRemovesOld ==
    [][CallStep("clear_old_sessions") =>
         LET old == {ppt_id \in storage :
                        (now - decks[ppt_id].generated_at) >
                            rIn'.max_age_hours * TicksPerHour}
         IN  /\ storage' = storage \ old
             /\ decks' = decks
             /\ rOut'.count = Cardinality(old)]_vars

\* A sweep with h = 1 that removed one session and kept another aged exactly
\* one hour.
C20_SweptOneKeptOne ==
    /\ rIn.called
    /\ rIn.op = "clear_old_sessions"
    /\ rIn.max_age_hours = 1
    /\ rOut.count = 1
    /\ \E kept \in storage : rIn.at - decks[kept].generated_at = TicksPerHour
    /\ \E gone \in DOMAIN decks \ storage :
          rIn.at - decks[gone].generated_at > TicksPerHour

\* ------------------------------------------------ the handlers' claims
\* The step changes the slides list s exactly as one assignment of worker p's
\* edit does: one supplied field of the slide addressed, nothing else.
EditAssigns(p, s) ==
    /\ procs[p].pc = "mutate"
    /\ procs[p].slides = s
    /\ \E f \in DOMAIN procs[p].body :
          slidesObj'[s] =
              [slidesObj[s] EXCEPT ![procs[p].idx + 1] =
                  [@ EXCEPT ![f] = procs[p].body[f]]]

\* C21: after a successful PATCH of slide i, a get of the deck shows slide i
\* with the supplied values and the stored binary is the render of the
\* edited slides; the slides change only by the assignment of a supplied
\* field of the slide addressed, so the other fields and the other slides are
\* as they were.
C21_EditRoundTrip ==
    /\ [](\A p \in Procs : \A d \in storage :
             PatchDone(p, d) =>
                 /\ EditLanded(p, d)
                 /\ decks[d].ppt_bytes =
                       Rerender(decks[d], StoredSlides(d),
                                imagesObj[decks[d].image_urls]))
    /\ [][\A s \in DOMAIN slidesObj :
             slidesObj'[s] # slidesObj[s] => \E p \in Procs : EditAssigns(p, s)]_vars

\* The title of the second of two slides has been edited, successfully: the
\* first slide and the second slide's bullets are as generated.
C21_SecondTitleEdited ==
    \E p \in Procs : \E d \in storage :
        /\ PatchDone(p, d)
        /\ procs[p].idx = 1
        /\ procs[p].body = [title |-> "new"]
        /\ Len(StoredSlides(d)) = 2
        /\ StoredSlides(d)[2].title = "new"
        /\ StoredSlides(d)[2].bullets = "orig"
        /\ StoredSlides(d)[1].title = "orig"
        /\ decks[d].ppt_bytes.slides[3].title = "new"

\* Worker p takes a slide edit or an image replace in this step and answers
\* it at once.
AnsweredAtOnce(p) ==
    /\ procs[p].pc = "idle"
    /\ procs'[p].pc = "done"
    /\ procs'[p].kind \in {"patch", "replace"}

\* C22: a slide edit, or an image replace by a signed-in caller, addressed to
\* an index outside 0..(number of slides - 1) of a stored deck is answered
\* 400 and leaves the deck as it was.
C22_OutOfRangeIs400 ==
    [][\A p \in Procs :
          (/\ AnsweredAtOnce(p)
           /\ procs'[p].ppt_id \in storage
           /\ \/ procs'[p].idx < 0
              \/ procs'[p].idx >= Len(StoredSlides(procs'[p].ppt_id))
           /\ procs'[p].kind = "replace" => procs'[p].caller \in Users)
              => /\ procs'[p].status = 400
                 /\ ~Changes(procs'[p].ppt_id)]_vars

\* C23: two requests to an endpoint that fail with different exception texts
\* get the same 500 body.
C23_GenericErrorBody ==
    rIn.called => rOut.bodies[1] = rOut.bodies[2]

\* The check raised somewhere: on the URL, on reading robots.txt, or on
\* evaluating it.
RobotsRaised == rIn.bad_url \/ rIn.fetch = "raise" \/ rIn.fetch_raises

\* robots.txt was read, and it permits the URL.
ReadAndPermits == rIn.fetch = "ok" /\ rIn.path \notin rIn.rules

\* C24: check_robots_txt returns allowed = false whenever robots.txt
\* disallows the URL and whenever reading or evaluating it raises; it returns
\* allowed = true only when robots.txt was read and permits the URL.
C24_FailClosed ==
    rIn.called =>
        /\ (rIn.fetch = "ok" /\ rIn.path \in rIn.rules) => ~rOut.allowed
        /\ RobotsRaised => ~rOut.allowed
        /\ rOut.allowed => ReadAndPermits

\* C27: the sanitizer returns a string of the topic's length in which every
\* character of [A-Za-z0-9_-] is kept and every other character is '_'.
C27_SanitizerPerCharacter ==
    rIn.called =>
        /\ Len(rOut.safe_topic) = Len(rIn.topic)
        /\ \A i \in 1..Len(rIn.topic) :
              /\ rOut.safe_topic[i] \in Kept
              /\ rIn.topic[i] \in Kept => rOut.safe_topic[i] = rIn.topic[i]
              /\ rIn.topic[i] \notin Kept => rOut.safe_topic[i] = "_"

\* The topic "A &" has become "A__".
C27_SpaceAndMarkReplaced ==
    /\ rIn.called
    /\ rIn.topic = <<"A", " ", "&">>
    /\ rOut.safe_topic = <<"A", "_", "_">>

ReplacePassesChecks(p) ==
    /\ AnsweredAtOnce(p)
    /\ procs'[p].kind = "replace"
    /\ procs'[p].ppt_id \in storage
    /\ procs'[p].status \notin {400, 401, 404}
    /\ StoredSlides(procs'[p].ppt_id)[procs'[p].idx + 1].suggested_images # {}

\* The fields of a session dict other than the binary, the image references
\* and the update timestamp.
OtherFields(rec) == DOMAIN rec \ {"ppt_bytes", "image_urls", "updated_at"}

OnDeck(p) == procs[p].kind \in {"get", "update", "delete"}

\* C26: a store operation on one deck id never has to wait for an operation
\* in progress on a different deck id: a thread waiting to enter a method can
\* enter whenever every thread inside a method is on another deck.
C26_DifferentDecksNotBlocked ==
    \A p \in Procs :
        (/\ procs[p].pc = "waiting"
         /\ OnDeck(p)
         /\ \A q \in Procs \ {p} :
               procs[q].pc = "inside"
                  => OnDeck(q) /\ procs[q].ppt_id # procs[p].ppt_id)
            => ENABLED Enter(p)

\* Worker p stores the deck it re-rendered after an edit or an image replace.
StoresRerender(p) ==
    /\ procs[p].pc = "update"
    /\ procs'[p].pc = "reget"
    /\ procs[p].ppt_id \in storage

\* C28: the deck stored by an edit or an image replace differs from the deck
\* stored before only on the addressed slide: the title slide shows the same
\* text, every other slide keeps its layout (chart or bullets), and the
\* colours are those of the generation.
C28_RerenderKeepsTheRest ==
    [][\A p \in Procs :
          StoresRerender(p)
             => /\ decks'[procs[p].ppt_id].ppt_bytes.colors
                      = decks[procs[p].ppt_id].ppt_bytes.colors
                /\ Len(decks'[procs[p].ppt_id].ppt_bytes.slides)
                      = Len(decks[procs[p].ppt_id].ppt_bytes.slides)
                /\ \A i \in 1..Len(decks[procs[p].ppt_id].ppt_bytes.slides) :
                      /\ i = 1 =>
                            decks'[procs[p].ppt_id].ppt_bytes.slides[i]
                               = decks[procs[p].ppt_id].ppt_bytes.slides[i]
                      /\ i # procs[p].idx + 2 =>
                            decks'[procs[p].ppt_id].ppt_bytes.slides[i].kind
                               = decks[procs[p].ppt_id].ppt_bytes.slides[i].kind]_vars

\* Worker p, having stored its edit, reads the deck again to answer and the
\* deck has been deleted in the meantime.
AnswersAfterDelete(p) ==
    /\ procs[p].kind \in {"patch", "replace"}
    /\ procs[p].pc = "reget"
    /\ procs'[p].pc = "done"
    /\ procs[p].ppt_id \notin storage

\* C29: a slide edit or an image replace that races with a delete of the
\* same deck answers with success or with 404, never with 500.
C29_RaceWithDeleteIsNot500 ==
    [][\A p \in Procs :
          AnswersAfterDelete(p) => procs'[p].status \in {200, 404}]_vars
====
